---- MODULE Spec2Model ----
(***************************************************************************)
(* Model of ByteUtilities.hpp (eHonnef/cpp-byte-utilities).                *)
(*                                                                         *)
(* An integer of the program is a typed bit pattern: a record              *)
(* [t |-> type, v |-> set of the positions of its 1 bits].  The C++        *)
(* operators are modelled on these records with the language's rules:      *)
(* integral promotion, usual arithmetic conversions, two's complement      *)
(* conversions, arithmetic right shift of signed operands (C++20, the      *)
(* standard the build selects), and undefined behaviour as a set of        *)
(* outcomes.                                                                *)
(***************************************************************************)
EXTENDS Integers, FiniteSets, Sequences, TLC

(***************************************************************************)
(* Bounds of the model.                                                    *)
(***************************************************************************)
MaxFlips == 3
MaxWrites == 2

(***************************************************************************)
(* Types.  bits is sizeof(T) * 8, sgn is std::is_signed, integral is       *)
(* std::is_integral.  The data model is LP64: int has 32 bits, size_t 64.  *)
(***************************************************************************)
TypeOf(n, b, s, i) == [name |-> n, bits |-> b, sgn |-> s, integral |-> i]

bool_t   == TypeOf("bool", 8, FALSE, TRUE)
uint8_t  == TypeOf("uint8_t", 8, FALSE, TRUE)
int16_t  == TypeOf("int16_t", 16, TRUE, TRUE)
uint16_t == TypeOf("uint16_t", 16, FALSE, TRUE)
int32_t  == TypeOf("int32_t", 32, TRUE, TRUE)
uint32_t == TypeOf("uint32_t", 32, FALSE, TRUE)
int64_t  == TypeOf("int64_t", 64, TRUE, TRUE)
uint64_t == TypeOf("uint64_t", 64, FALSE, TRUE)
size_t   == TypeOf("size_t", 64, FALSE, TRUE)
float_t  == TypeOf("float", 32, TRUE, FALSE)
double_t == TypeOf("double", 64, TRUE, FALSE)

int_t      == int32_t
unsigned_t == uint32_t

\* The types the test suite instantiates the templates with.
TestTypes == {int16_t, int32_t, int64_t, uint16_t, uint32_t, uint64_t}

(***************************************************************************)
(* Bit vectors of width w: subsets of 0..w-1.                              *)
(***************************************************************************)
BitsOf(w) == 0 .. (w - 1)

Max(S) == CHOOSE x \in S : \A y \in S : y <= x

BvFromNat(n) == {i \in 0..30 : (n \div (2 ^ i)) % 2 = 1}

RECURSIVE BvToNat(_)
BvToNat(a) ==
    IF a = {} THEN 0
    ELSE LET i == Max(a) IN (2 ^ i) + BvToNat(a \ {i})

BvShl(a, k, w) == {i + k : i \in a} \cap BitsOf(w)

BvXor(a, b) == (a \ b) \cup (b \ a)

\* Ripple-carry addition from bit i with carry c.  Once there is no carry
\* and one operand has no bit left, the rest of the sum is the other operand.
RECURSIVE AddFrom(_, _, _, _, _)
AddFrom(a, b, i, c, w) ==
    IF i >= w THEN {}
    ELSE IF ~c /\ (\A j \in a : j < i) THEN {j \in b : j >= i /\ j < w}
    ELSE IF ~c /\ (\A j \in b : j < i) THEN {j \in a : j >= i /\ j < w}
    ELSE LET ai == i \in a
             bi == i \in b
             s  == (ai # bi) # c
             co == (ai /\ bi) \/ (c /\ (ai # bi))
         IN  (IF s THEN {i} ELSE {}) \cup AddFrom(a, b, i + 1, co, w)

BvAdd(a, b, w) == AddFrom(a, b, 0, FALSE, w)

\* Ripple-borrow subtraction from bit i with borrow c.
RECURSIVE SubFrom(_, _, _, _, _)
SubFrom(a, b, i, c, w) ==
    IF i >= w THEN {}
    ELSE IF ~c /\ (\A j \in b : j < i) THEN {j \in a : j >= i /\ j < w}
    ELSE LET ai == i \in a
             bi == i \in b
             s  == (ai # bi) # c
             co == (~ai /\ bi) \/ ((ai = bi) /\ c)
         IN  (IF s THEN {i} ELSE {}) \cup SubFrom(a, b, i + 1, co, w)

BvSub(a, b, w) == SubFrom(a, b, 0, FALSE, w)

RECURSIVE MulAcc(_, _, _, _)
MulAcc(a, bs, acc, w) ==
    IF bs = {} THEN acc
    ELSE LET i == Max(bs)
         IN  MulAcc(a, bs \ {i}, BvAdd(acc, BvShl(a, i, w), w), w)

BvMul(a, b, w) == MulAcc(a, b, {}, w)

\* unsigned a < b
BvLess(a, b) == LET d == BvXor(a, b) IN d # {} /\ Max(d) \in b

(***************************************************************************)
(* Typed values and the C++ conversions.                                   *)
(***************************************************************************)
Val(t, v) == [t |-> t, v |-> v]

\* Integer literal or small constant n of type t.
Lit(t, n) == Val(t, BvFromNat(n) \cap BitsOf(t.bits))

IsNeg(x) == x.t.sgn /\ (x.t.bits - 1) \in x.v

\* Conversion between integer types: truncation modulo 2^bits, or sign /
\* zero extension according to the source type.
Cast(x, t) ==
    IF t.bits <= x.t.bits
    THEN Val(t, x.v \cap BitsOf(t.bits))
    ELSE Val(t, x.v \cup (IF IsNeg(x) THEN x.t.bits .. (t.bits - 1) ELSE {}))

\* Contextual or implicit conversion to bool.
ToBool(x) == x.v # {}

\* bool converted to an integer type.
FromBool(b, t) == Val(t, IF b THEN {0} ELSE {})

\* Integral promotion: every type of rank below int becomes int.
Promote(t) == IF t.bits < int_t.bits THEN int_t ELSE t

\* Usual arithmetic conversions on two promoted types (LP64).
Common(a, b) ==
    IF a.bits = b.bits THEN (IF a.sgn THEN b ELSE a)
    ELSE IF a.bits > b.bits THEN a ELSE b

ArithType(x, y) == Common(Promote(x.t), Promote(y.t))

BitAnd(x, y) ==
    LET c == ArithType(x, y) IN Val(c, Cast(x, c).v \cap Cast(y, c).v)

BitOr(x, y) ==
    LET c == ArithType(x, y) IN Val(c, Cast(x, c).v \cup Cast(y, c).v)

BitXor(x, y) ==
    LET c == ArithType(x, y) IN Val(c, BvXor(Cast(x, c).v, Cast(y, c).v))

\* Unary minus (on the promoted operand).
Neg(x) ==
    LET p == Promote(x.t) IN Val(p, BvSub({}, Cast(x, p).v, p.bits))

\* size_t arithmetic: unsigned, modulo 2^64.
SizeT(n) == Lit(size_t, n)

SzMul(x, y) == Val(size_t, BvMul(x.v, y.v, size_t.bits))

SzAdd(x, y) == Val(size_t, BvAdd(x.v, y.v, size_t.bits))

SzSub(x, y) == Val(size_t, BvSub(x.v, y.v, size_t.bits))

SzLess(x, y) == BvLess(x.v, y.v)

\* sizeof(T)
SizeOf(t) == SizeT(t.bits \div 8)

(***************************************************************************)
(* Shifts.  A shift whose count is not less than the width of the promoted *)
(* left operand is undefined.                                              *)
(***************************************************************************)
ShiftDefined(x, n) == SzLess(n, SizeT(Promote(x.t).bits))

ShlBy(x, k) ==
    LET p == Promote(x.t) IN Val(p, BvShl(Cast(x, p).v, k, p.bits))

ShrBy(x, k) ==
    LET p  == Promote(x.t)
        xp == Cast(x, p)
    IN  Val(p, {i - k : i \in {j \in xp.v : j >= k}}
               \cup (IF IsNeg(xp) THEN (p.bits - k) .. (p.bits - 1) ELSE {}))

\* x << n and x >> n for a count in range.
Shl(x, n) == ShlBy(x, BvToNat(n.v))

Shr(x, n) == ShrBy(x, BvToNat(n.v))

\* The count a shift instruction uses when the count is out of range: the
\* low bits of the count (x86-64 SHL/SHR/SAR).
MaskedCount(x, n) == BvToNat(n.v \cap BitsOf(6)) % Promote(x.t).bits

\* Outcomes of x << n: the defined result, or, when the count is out of
\* range, what the shift instruction yields and what constant folding yields.
ShlOutcomes(x, n) ==
    IF ShiftDefined(x, n) THEN {Shl(x, n)}
    ELSE {ShlBy(x, MaskedCount(x, n)), Val(Promote(x.t), {})}

ShrOutcomes(x, n) ==
    IF ShiftDefined(x, n) THEN {Shr(x, n)}
    ELSE {ShrBy(x, MaskedCount(x, n)), ShrBy(x, Promote(x.t).bits - 1)}

\* x - y in the common type, modulo 2^bits.
SubWrap(x, y) ==
    LET c == ArithType(x, y)
    IN  Val(c, BvSub(Cast(x, c).v, Cast(y, c).v, c.bits))

\* Signed overflow of x - y: the operands differ in sign and the wrapped
\* result has the sign of y.
SubOverflows(x, y) ==
    LET c  == ArithType(x, y)
        xc == Cast(x, c)
        yc == Cast(y, c)
    IN  c.sgn /\ IsNeg(xc) # IsNeg(yc) /\ IsNeg(SubWrap(x, y)) # IsNeg(xc)

\* Outcomes of x - y: the defined result, or, on signed overflow, the
\* wrapped result of the subtract instruction and an arbitrary value (the
\* expression is poison to the optimiser), represented by zero.
SubOutcomes(x, y) ==
    IF SubOverflows(x, y)
    THEN {SubWrap(x, y), Val(ArithType(x, y), {})}
    ELSE {SubWrap(x, y)}

(***************************************************************************)
(* Bits operation section.                                                 *)
(***************************************************************************)

\* template<typename T> T CreateBitMask(size_t uPos, size_t uLen):
\*   return ((T(1u) << uLen) - T(1u)) << uPos;
\* The set of values the call can return.
CreateBitMask(T, uPos, uLen) ==
    LET one == Cast(Lit(unsigned_t, 1), T)
        s1  == ShlOutcomes(one, uLen)
        s2  == UNION {SubOutcomes(a, one) : a \in s1}
        s3  == UNION {ShlOutcomes(b, uPos) : b \in s2}
    IN  {Cast(c, T) : c \in s3}

\* template<size_t _uPos, size_t _uLen, typename T> struct CreateBitMask_:
\*   enum { Mask = ((T(1u) << _uLen) - T(1u)) << _uPos };
\* A constant expression: undefined behaviour makes the instantiation
\* ill-formed.  The enumerator keeps the value of the promoted expression
\* (it is not converted to T).
CreateBitMask_(uPos_, uLen_, T) ==
    LET one == Cast(Lit(unsigned_t, 1), T)
        ok1 == ShiftDefined(one, uLen_)
        a   == Shl(one, uLen_)
        ok2 == ok1 /\ ~SubOverflows(a, one)
        b   == SubWrap(a, one)
        ok3 == ok2 /\ ShiftDefined(b, uPos_)
    IN  IF ok3 THEN [ok |-> TRUE, Mask |-> Shl(b, uPos_)]
        ELSE [ok |-> FALSE, Mask |-> Val(Promote(T), {})]

\* template<typename T> T GetBitSlice(T nInt, size_t uPos, size_t uLen):
\*   return (nInt & CreateBitMask<T>(uPos, uLen)) >> uPos;
\* The set of values the call can return.
GetBitSlice(T, nInt, uPos, uLen) ==
    LET n  == Val(T, nInt)
        s1 == {BitAnd(n, m) : m \in CreateBitMask(T, uPos, uLen)}
        s2 == UNION {ShrOutcomes(a, uPos) : a \in s1}
    IN  {Cast(b, T).v : b \in s2}

\* template<typename T> bool GetBit(T nInt, size_t uPos):
\*   return (nInt >> uPos) & T(1u);
GetBit(T, nInt, uPos) ==
    ToBool(BitAnd(Shr(Val(T, nInt), uPos), Cast(Lit(unsigned_t, 1), T)))

\* SetBit without the unary minus: (!!T(bBitValue) ^ nInt) & (T(1u) << uPos).
SetBitNoNegate(T, nInt, uPos, bBitValue) ==
    LET n    == Val(T, nInt)
        m    == FromBool(~ ~ ToBool(FromBool(bBitValue, T)), bool_t)
        bit  == Shl(Cast(Lit(unsigned_t, 1), T), uPos)
        rhs  == BitAnd(BitXor(m, n), bit)
    IN  Cast(BitXor(n, rhs), T).v

\* template<typename T> void SetBit(T &nInt, size_t uPos, bool bBitValue):
\*   nInt ^= (-(!!T(bBitValue)) ^ nInt) & (T(1u) << uPos);
\* The new value of nInt.
SetBit(T, nInt, uPos, bBitValue) ==
    LET n    == Val(T, nInt)
        notnot == ~ ~ ToBool(FromBool(bBitValue, T))
        m    == Neg(FromBool(notnot, bool_t))
        bit  == Shl(Cast(Lit(unsigned_t, 1), T), uPos)
        rhs  == BitAnd(BitXor(m, n), bit)
    IN  Cast(BitXor(n, rhs), T).v

\* FlipBit with |= in place of ^=.
FlipBitOr(T, nInt, uPos) ==
    Cast(BitOr(Val(T, nInt), Shl(Cast(Lit(unsigned_t, 1), T), uPos)), T).v

\* template<typename T> void FlipBit(T &nInt, size_t uPos):
\*   nInt ^= T(1u) << uPos;
\* The new value of nInt.
FlipBit(T, nInt, uPos) ==
    Cast(BitXor(Val(T, nInt), Shl(Cast(Lit(unsigned_t, 1), T), uPos)), T).v

(***************************************************************************)
(* Bytes operation section.                                                *)
(***************************************************************************)

\* template<size_t _uPos, size_t _uLen, typename T> struct SanityCheck:
\*   Value = _uLen > 0 && (_uPos + _uLen - 1) < (sizeof(T) * 8)
\*           && std::is_integral<T>::value
SanityCheck(uPos_, uLen_, T) ==
    /\ SzLess(SizeT(0), uLen_)
    /\ SzLess(SzSub(SzAdd(uPos_, uLen_), SizeT(1)), SzMul(SizeOf(T), SizeT(8)))
    /\ T.integral

\* The static_assert of the compile-time GetByte and SetByte:
\*   SanityCheck<(_uPos * 8), (8 - 1), T>::Value
ByteSanityCheck(uPos_, T) ==
    SanityCheck(SzMul(uPos_, SizeT(8)), SzSub(SizeT(8), SizeT(1)), T)

\* GetByte shifting by uPos bits instead of 8 * uPos.
GetByteBitShift(T, nInt, uPos) ==
    Cast(BitAnd(Shr(Val(T, nInt), uPos), Lit(int_t, 255)), uint8_t).v

\* template<typename T> uint8_t GetByte(T nInt, size_t uPos):
\*   return (nInt >> (8 * uPos)) & 0xff;
GetByte(T, nInt, uPos) ==
    Cast(BitAnd(Shr(Val(T, nInt), SzMul(SizeT(8), uPos)), Lit(int_t, 255)),
         uint8_t).v

\* template<size_t _uPos, typename T> uint8_t GetByte(T nInt):
\*   return (nInt & CreateBitMask_<_uPos * 8, 8, T>::Mask) >> (_uPos * 8);
GetByteAt(uPos_, T, nInt) ==
    LET at == SzMul(uPos_, SizeT(8))
        m  == CreateBitMask_(at, SizeT(8), T).Mask
    IN  Cast(Shr(BitAnd(Val(T, nInt), m), at), uint8_t).v

\* SetByte without the shift of the byte value.
SetByteUnshifted(uPos_, T, nInt, uByteValue) ==
    LET at == SzMul(uPos_, SizeT(8))
        m  == CreateBitMask_(at, SizeT(8), T).Mask
    IN  Cast(BitOr(Val(T, nInt), BitAnd(m, Cast(Val(uint8_t, uByteValue), T))), T).v

\* SetByte with the byte cleared before the OR.
SetByteClearing(uPos_, T, nInt, uByteValue) ==
    LET at == SzMul(uPos_, SizeT(8))
        m  == CreateBitMask_(at, SizeT(8), T).Mask
        b  == Shl(Cast(Val(uint8_t, uByteValue), T), at)
        n  == Val(T, nInt \ Cast(m, T).v)
    IN  Cast(BitOr(n, BitAnd(m, b)), T).v

\* template<size_t _uPos, typename T> void SetByte(T &nInt, uint8_t uByteValue):
\*   nInt |= (CreateBitMask_<_uPos * 8, 8, T>::Mask
\*            & (static_cast<T>(uByteValue) << _uPos * 8));
\* The new value of nInt.
SetByte(uPos_, T, nInt, uByteValue) ==
    LET at == SzMul(uPos_, SizeT(8))
        m  == CreateBitMask_(at, SizeT(8), T).Mask
        b  == Shl(Cast(Val(uint8_t, uByteValue), T), at)
    IN  Cast(BitOr(Val(T, nInt), BitAnd(m, b)), T).v

(***************************************************************************)
(* The caller: one integer variable nInt of type T and the library call    *)
(* made on it.                                                             *)
(***************************************************************************)
VARIABLES
    T,          \* the type the templates are instantiated with
    nInt,       \* the caller's integer (the in/out argument)
    prev,       \* nInt before the last call
    x0,         \* nInt before the first call
    op,         \* the last call
    uPos,       \* its position argument
    uLen,       \* its length argument
    bBitValue,  \* its bit argument
    uByteValue, \* its byte argument
    ret,        \* its return value
    ok,         \* whether its instantiation is well-formed
    calls,      \* the number of calls made
    flips,      \* the positions FlipBit was called with an odd number of times
    written,    \* per byte index, the OR of the byte values SetByte was given
    src,        \* the value the set-byte test rebuilds
    tPos        \* a template argument _uPos as a size_t bit pattern

vars == <<T, nInt, prev, x0, op, uPos, uLen, bBitValue, uByteValue, ret, ok,
          calls, flips, written, src, tPos>>

\* A bit pattern from its bytes, least significant first.
FromBytes(s) == UNION {{8 * (i - 1) + j : j \in BvFromNat(s[i])} : i \in 1..Len(s)}

\* 0xB7AB and 0x37AB (bit tests), 0xABCDEF0123456789 (byte tests),
\* 0xAB01CD (documentation of GetByte and SetByte), 0 and 1.
Patterns ==
    { FromBytes(<<171, 183>>),
      FromBytes(<<171, 55>>),
      FromBytes(<<137, 103, 69, 35, 1, 239, 205, 171>>),
      FromBytes(<<205, 1, 171>>),
      {}, {0} }

\* The values of type t the calls are made on: the patterns converted to t,
\* the value with only the most significant bit, and the value of all ones.
Samples(t) ==
    {q \cap BitsOf(t.bits) : q \in Patterns} \cup {{t.bits - 1}, BitsOf(t.bits)}

\* Byte values passed to SetByte.
ByteSamples == {0, 137, 255}

\* The bit argument as the tests pass it: a bool, or an int 0 / 1.
BitArgs == {FromBool(FALSE, bool_t), FromBool(TRUE, bool_t),
            Lit(int_t, 0), Lit(int_t, 1)}

NoBytes(t) == [p \in 0 .. (t.bits \div 8 - 1) |-> {}]

InitCommon ==
    /\ prev = nInt
    /\ x0 = nInt
    /\ op = "none"
    /\ uPos = 0
    /\ uLen = 0
    /\ bBitValue = FALSE
    /\ uByteValue = 0
    /\ ret = {}
    /\ ok = TRUE
    /\ calls = 0
    /\ flips = {}
    /\ written = NoBytes(T)

Init ==
    /\ T \in TestTypes
    /\ nInt \in Samples(T)
    /\ InitCommon
    /\ src = {}
    /\ tPos = {}

\* A call that leaves nInt alone and returns r.
Returns(name, p, l, r) ==
    /\ op' = name
    /\ uPos' = p
    /\ uLen' = l
    /\ ret' = r
    /\ prev' = nInt
    /\ calls' = calls + 1
    /\ UNCHANGED <<T, nInt, x0, bBitValue, uByteValue, ok, flips, written, src, tPos>>

\* A call that assigns v to nInt.
Assigns(name, p, v) ==
    /\ op' = name
    /\ uPos' = p
    /\ nInt' = v
    /\ prev' = nInt
    /\ calls' = calls + 1
    /\ UNCHANGED <<T, x0, uLen, ret, ok, src, tPos>>

\* The positions and lengths with uPos + uLen <= bit width of T.
Ranges(t) == {r \in (0 .. t.bits) \X (0 .. t.bits) : r[1] + r[2] <= t.bits}

CreateBitMaskCall ==
    /\ op = "none"
    /\ \E r \in Ranges(T) :
         \E m \in CreateBitMask(T, SizeT(r[1]), SizeT(r[2])) :
            Returns("CreateBitMask", r[1], r[2], m.v)

\* GetBitSlice called on the mask CreateBitMask returned, with the same
\* position and length.
GetBitSliceOfMaskCall ==
    /\ op = "CreateBitMask"
    /\ \E s \in GetBitSlice(T, ret, SizeT(uPos), SizeT(uLen)) :
         /\ op' = "GetBitSlice(mask)"
         /\ nInt' = ret
         /\ prev' = nInt
         /\ ret' = s
         /\ calls' = calls + 1
         /\ UNCHANGED <<T, x0, uPos, uLen, bBitValue, uByteValue, ok, flips,
                        written, src, tPos>>

CreateBitMask_Inst ==
    /\ op = "none"
    /\ \E r \in Ranges(T) :
         LET m == CreateBitMask_(SizeT(r[1]), SizeT(r[2]), T)
         IN  /\ op' = "CreateBitMask_"
             /\ uPos' = r[1]
             /\ uLen' = r[2]
             /\ ok' = m.ok
             /\ ret' = m.Mask.v
             /\ prev' = nInt
             /\ calls' = calls + 1
             /\ UNCHANGED <<T, nInt, x0, bBitValue, uByteValue, flips, written,
                            src, tPos>>

GetBitSliceCall ==
    /\ op = "none"
    /\ \E r \in Ranges(T) :
         \E s \in GetBitSlice(T, nInt, SizeT(r[1]), SizeT(r[2])) :
            Returns("GetBitSlice", r[1], r[2], s)

GetBitCall ==
    /\ op = "none"
    /\ \E p \in BitsOf(T.bits) :
         Returns("GetBit", p, 0, GetBit(T, nInt, SizeT(p)))

SetBitCall ==
    /\ op = "none"
    /\ \E p \in BitsOf(T.bits), a \in BitArgs :
         /\ bBitValue' = ToBool(a)
         /\ Assigns("SetBit", p, SetBit(T, nInt, SizeT(p), ToBool(a)))
         /\ UNCHANGED <<uByteValue, flips, written>>

GetByteCall ==
    /\ op = "none"
    /\ \E p \in 0 .. (T.bits \div 8 - 1) :
         Returns("GetByte", p, 0, GetByte(T, nInt, SizeT(p)))

\* The compile-time calls exist only where the static_assert holds.
GetByteAtCall ==
    /\ op = "none"
    /\ \E p \in 0 .. (T.bits \div 8) :
         /\ ByteSanityCheck(SizeT(p), T)
         /\ Returns("GetByte<>", p, 0, GetByteAt(SizeT(p), T, nInt))

SetByteCall ==
    /\ op = "none"
    /\ \E p \in 0 .. (T.bits \div 8), b \in ByteSamples :
         /\ ByteSanityCheck(SizeT(p), T)
         /\ uByteValue' = b
         /\ written' = [written EXCEPT ![p] = @ \cup BvFromNat(b)]
         /\ Assigns("SetByte", p, SetByte(SizeT(p), T, nInt, BvFromNat(b)))
         /\ UNCHANGED <<bBitValue, flips>>

\* One call of a bit or byte operation on a sample value.
Next ==
    \/ GetBitCall
    \/ SetBitCall
    \/ GetByteCall
    \/ GetByteAtCall
    \/ SetByteCall

Spec == Init /\ [][Next]_vars

\* One call of a mask or slice operation on a sample value.
NextMask ==
    \/ CreateBitMaskCall
    \/ GetBitSliceOfMaskCall
    \/ CreateBitMask_Inst
    \/ GetBitSliceCall

SpecMask == Init /\ [][NextMask]_vars

(***************************************************************************)
(* Sequences of FlipBit calls, as in the test case "Flip bit".             *)
(***************************************************************************)

\* The positions the test flips: 0, 3, 6, 15 and the most significant bit.
FlipPositions(t) == {0, 3, 6, 15, t.bits - 1}

FlipBitCall ==
    /\ calls < MaxFlips
    /\ \E p \in FlipPositions(T) :
         /\ flips' = BvXor(flips, {p})
         /\ Assigns("FlipBit", p, FlipBit(T, nInt, SizeT(p)))
         /\ UNCHANGED <<bBitValue, uByteValue, written>>

NextFlip == FlipBitCall

SpecFlip == Init /\ [][NextFlip]_vars

(***************************************************************************)
(* Sequences of compile-time SetByte calls.                                *)
(***************************************************************************)
SetByteSeqCall ==
    /\ calls < MaxWrites
    /\ \E p \in 0 .. (T.bits \div 8), b \in ByteSamples :
         /\ ByteSanityCheck(SizeT(p), T)
         /\ uByteValue' = b
         /\ written' = [written EXCEPT ![p] = @ \cup BvFromNat(b)]
         /\ Assigns("SetByte", p, SetByte(SizeT(p), T, nInt, BvFromNat(b)))
         /\ UNCHANGED <<bBitValue, flips>>

NextByte == SetByteSeqCall

SpecByte == Init /\ [][NextByte]_vars

(***************************************************************************)
(* TEST_CASE("Set byte test - compile time"): an accumulator that starts   *)
(* at 0 receives the bytes of src through SetByte<0> .. SetByte<7>.        *)
(***************************************************************************)
InitRebuild ==
    /\ T \in {int64_t, uint64_t}
    /\ nInt = {}
    /\ InitCommon
    /\ src \in Samples(T)
    /\ tPos = {}

RebuildStep ==
    /\ calls < T.bits \div 8
    /\ ByteSanityCheck(SizeT(calls), T)
    /\ LET b == GetByte(T, src, SizeT(calls))
       IN  /\ uByteValue' = BvToNat(b)
           /\ written' = [written EXCEPT ![calls] = @ \cup b]
           /\ op' = "SetByte"
           /\ uPos' = calls
           /\ nInt' = SetByte(SizeT(calls), T, nInt, b)
           /\ prev' = nInt
           /\ calls' = calls + 1
           /\ UNCHANGED <<T, x0, uLen, ret, ok, src, tPos, bBitValue, flips>>

NextRebuild == RebuildStep

SpecRebuild == InitRebuild /\ [][NextRebuild]_vars

(***************************************************************************)
(* Instantiations of the compile-time GetByte and SetByte: the outcome of  *)
(* their static_assert.                                                    *)
(***************************************************************************)
AllTypes == TestTypes \cup {uint8_t, bool_t, float_t, double_t}

\* Template arguments _uPos: 0 .. 9 and values at and above 2^61.
TemplatePositions ==
    {BvFromNat(n) : n \in 0..9}
        \cup {{61}, {61, 0}, {61, 1}, {62}, {63}, {62, 0}, BitsOf(size_t.bits)}

InitInst ==
    /\ T \in AllTypes
    /\ nInt = {}
    /\ InitCommon
    /\ src = {}
    /\ tPos \in TemplatePositions

Instantiate(name) ==
    /\ op = "none"
    /\ op' = name
    /\ ok' = ByteSanityCheck(Val(size_t, tPos), T)
    /\ calls' = calls + 1
    /\ UNCHANGED <<T, nInt, prev, x0, uPos, uLen, bBitValue, uByteValue, ret,
                   flips, written, src, tPos>>

InstantiateGetByte == Instantiate("GetByte<>")

InstantiateSetByte == Instantiate("SetByte<>")

NextInst == InstantiateGetByte \/ InstantiateSetByte

SpecInst == InitInst /\ [][NextInst]_vars

(***************************************************************************)
(* Properties.                                                             *)
(***************************************************************************)

\* The byte of bit pattern v at byte index b, as an 8-bit pattern.
ByteBits(v, b) == {i - 8 * b : i \in v \cap ((8 * b) .. (8 * b + 7))}

ByteIndices(t) == 0 .. (t.bits \div 8 - 1)

\* The bits uPos .. uPos + uLen - 1.
RangeBits(p, l) == p .. (p + l - 1)

TypeOK ==
    /\ T \in AllTypes
    /\ nInt \subseteq BitsOf(T.bits)

\* C1: after the compile-time SetByte<pos>(x, b) the byte of x at index pos
\* equals b, whatever it held before, and every other byte is unchanged.
C1_SetByteReplacesByte ==
    op = "SetByte" =>
        /\ ByteBits(nInt, uPos) = BvFromNat(uByteValue)
        /\ \A q \in ByteIndices(T) \ {uPos} : ByteBits(nInt, q) = ByteBits(prev, q)

\* C2: after SetBit(x, pos, bitValue), GetBit(x, pos) is true iff bitValue
\* is truthy, and every bit other than pos has the value it had before.
C2_SetBitSetsOnlyPos ==
    op = "SetBit" =>
        /\ GetBit(T, nInt, SizeT(uPos)) = bBitValue
        /\ \A q \in BitsOf(T.bits) \ {uPos} :
              /\ GetBit(T, nInt, SizeT(q)) = GetBit(T, prev, SizeT(q))
              /\ (q \in nInt) = (q \in prev)

\* SetBit has forced the sign bit of a non-zero int64_t from 0 to 1.
C2_Witness ==
    /\ op = "SetBit"
    /\ T = int64_t
    /\ uPos = 63
    /\ bBitValue
    /\ prev = FromBytes(<<171, 183>>)
    /\ nInt = prev \cup {63}

\* C3: GetBitSlice(CreateBitMask(pos, len), pos, len) == CreateBitMask(0, len)
\* for every type and all pos, len with pos + len <= bit width.
C3_SliceOfMaskIsLowMask ==
    op = "GetBitSlice(mask)" =>
        \A z \in CreateBitMask(T, SizeT(0), SizeT(uLen)) : ret = z.v

\* C4: GetBitSlice(value, pos, len) has bits pos .. pos+len-1 of value in its
\* bits 0 .. len-1 and all bits at positions >= len equal to 0.
C4_SliceInLowBits ==
    op = "GetBitSlice" =>
        ret = {i - uPos : i \in nInt \cap RangeBits(uPos, uLen)}

\* C5: the runtime CreateBitMask<T>(pos, len) and the compile-time
\* CreateBitMask_<pos, len, T>::Mask both yield exactly the bits
\* pos .. pos+len-1, for all pos, len with pos + len <= bit width.
C5_MaskIsRange ==
    /\ op = "CreateBitMask" => ret = RangeBits(uPos, uLen)
    /\ op = "CreateBitMask_" => ok /\ ret = RangeBits(uPos, uLen)

\* C6: FlipBit(x, p) inverts bit p and leaves every other bit unchanged, at
\* every position; applied twice at the same position it restores x; and
\* after any sequence of flips the value is the initial value with exactly
\* the positions flipped an odd number of times inverted.
C6_FlipBitToggles ==
    /\ op = "FlipBit" => nInt = BvXor(prev, {uPos})
    /\ nInt = BvXor(x0, flips)
    /\ \A p \in BitsOf(T.bits) :
          /\ FlipBit(T, nInt, SizeT(p)) = BvXor(nInt, {p})
          /\ FlipBit(T, FlipBit(T, nInt, SizeT(p)), SizeT(p)) = nInt

\* The end of the test case "Flip bit" for int16_t: 0x1 with bit 0, the most
\* significant bit and bit 3 flipped is 0x8008.
C6_Witness ==
    /\ op = "FlipBit"
    /\ T = int16_t
    /\ x0 = {0}
    /\ calls = 3
    /\ flips = {0, 3, 15}
    /\ nInt = {3, 15}

\* C7: the runtime GetByte(v, b) and the compile-time GetByte<b>(v) return
\* the same unsigned 8-bit value, bits 8b .. 8b+7 of v.
C7_GetByteFormsAgree ==
    /\ op = "GetByte" =>
          /\ ret = ByteBits(nInt, uPos)
          /\ ret = GetByteAt(SizeT(uPos), T, nInt)
    /\ op = "GetByte<>" =>
          /\ ret = ByteBits(nInt, uPos)
          /\ ret = GetByte(T, nInt, SizeT(uPos))

\* The compile-time GetByte<7> has returned 0xAB, the top byte of the
\* negative int64_t 0xABCDEF0123456789.
C7_Witness ==
    /\ op = "GetByte<>"
    /\ T = int64_t
    /\ uPos = 7
    /\ nInt = FromBytes(<<137, 103, 69, 35, 1, 239, 205, 171>>)
    /\ ret = BvFromNat(171)

\* C8: starting from 0, after the k-th call SetByte<i>(acc, GetByte(v, i)),
\* i = 0 .. 7 ascending, bytes 0 .. k-1 of acc equal those of v and bytes
\* k .. 7 are 0; after the eighth call acc = v.
C8_RebuildFromZero ==
    /\ \A q \in ByteIndices(T) :
          ByteBits(nInt, q) = IF q < calls THEN ByteBits(src, q) ELSE {}
    /\ calls = 8 => nInt = src

\* The test case: 0xABCDEF0123456789 rebuilt in a uint64_t.
C8_Witness ==
    /\ T = uint64_t
    /\ calls = 8
    /\ src = FromBytes(<<137, 103, 69, 35, 1, 239, 205, 171>>)
    /\ nInt = src

\* What C9 states as the accepted instantiations: the whole byte at index
\* pos lies inside T, pos * 8 + 7 <= bit width - 1 (in unbounded arithmetic:
\* pos < sizeof(T)).
ByteInside(pos, t) == BvLess(pos, BvFromNat(t.bits \div 8))

\* C9: the static check of GetByte<pos> and SetByte<pos> accepts an
\* instantiation exactly when T is integral and pos * 8 + 7 <= bit width - 1.
C9_CheckAcceptsExactlyInRange ==
    op \in {"GetByte<>", "SetByte<>"} =>
        (ok <=> (T.integral /\ ByteInside(tPos, T)))

====
